---- MODULE Spec2Model ----
(***************************************************************************)
(* Zone-occupancy ingestion of guidialert-metrics.                         *)
(*                                                                         *)
(* A pool of ingestor workers (src/ingestor/main.py) consumes location     *)
(* events and applies them to the PostgreSQL tables devices, zones and     *)
(* zone_history.  The master-data upserts and then every SQL statement of  *)
(* process_event are steps of the model; a transaction's writes are        *)
(* buffered in the worker (pend) and                                       *)
(* reach the committed tables at conn.commit().  Row locks are held until  *)
(* the transaction ends.  NOW() is PostgreSQL's transaction timestamp: it  *)
(* is fixed when the transaction begins and is the same in every statement *)
(* of that transaction.                                                    *)
(*                                                                         *)
(* Timestamps are positive integers; 0 stands for SQL NULL / "no row".     *)
(* A missing payload key and Python's None are the empty string "".        *)
(***************************************************************************)
EXTENDS Integers, Sequences, FiniteSets, TLC

\* ------------------------------------------------------------------ bounds
NumWorkers == 2
MaxTime == 3
\* The last instant of the clock when the events are processed one at a time.
MaxSerialTime == 5

Workers == 1..NumWorkers
Times == 0..MaxTime

\* ------------------------------------------------------- program constants
DEFAULT_SITE_ID == "site-001"

\* Mutation of autocommit: the connection is left in autocommit mode, so every
\* statement commits on its own.
autocommit_on == TRUE

\* conn.autocommit = False
autocommit == FALSE

\* ------------------------------------------------------------------ inputs
Sites == {"site-001", "s2"}
DeviceIds == {"d1", "d2"}
ZoneIds == {"z1", "z2"}
Keys == Sites \X DeviceIds
ZoneKeys == Sites \X ZoneIds
\* A zone created by an event is named after its id; the zone API names it.
ZoneNames == ZoneIds \cup {"Lobby"}

NoPayload == [deviceId |-> "", device_id |-> "", zoneId |-> "", zone_id |-> "",
              siteId |-> "", site_id |-> ""]

\* The messages the transport delivers: payload and topic (a topic is the
\* sequence of its "/"-separated segments).
Messages ==
  { [payload |-> [NoPayload EXCEPT !.deviceId = "d1", !.zoneId = "z1"],
     topic |-> <<"x", "y">>],
    [payload |-> [NoPayload EXCEPT !.device_id = "d1", !.zone_id = "z2", !.site_id = "site-001"],
     topic |-> <<"site", "s2", "device", "d9", "location">>],
    [payload |-> [NoPayload EXCEPT !.zoneId = "z2"],
     topic |-> <<"site", "site-001", "device", "d1", "location">>],
    [payload |-> [NoPayload EXCEPT !.zone_id = "z1"],
     topic |-> <<"site", "s2", "device", "d1", "location">>],
    [payload |-> NoPayload,
     topic |-> <<"x", "y">>],
    [payload |-> [NoPayload EXCEPT !.deviceId = "d1"],
     topic |-> <<"site", "s2", "device", "d1", "location">>] }

\* ------------------------------------------------------------ normalizer
\* Python's `a or b` on strings / None.
Or(a, b) == IF a # "" THEN a ELSE b

\* re.match(r"^site/([^/]+)/device/([^/]+)/location$", topic)
parse_topic_site_device(topic) ==
  IF /\ Len(topic) = 5
     /\ topic[1] = "site" /\ topic[3] = "device" /\ topic[5] = "location"
     /\ topic[2] # "" /\ topic[4] # ""
  THEN <<topic[2], topic[4]>>
  ELSE <<"", "">>

\* Mutation of normalize_event: only the device is checked, an event without a
\* zone is let through.
normalize_event_zone_optional(payload, topic) ==
  LET payload_device == Or(payload.deviceId, payload.device_id)
      payload_zone == Or(payload.zoneId, payload.zone_id)
      payload_site == Or(payload.siteId, payload.site_id)
      t == parse_topic_site_device(topic)
      site_id == Or(payload_site, Or(t[1], DEFAULT_SITE_ID))
      device_id == Or(payload_device, t[2])
      zone_id == payload_zone
  IN IF device_id = ""
     THEN [ok |-> FALSE, site_id |-> "", device_id |-> "", zone_id |-> ""]
     ELSE [ok |-> TRUE, site_id |-> site_id, device_id |-> device_id, zone_id |-> zone_id]

\* Mutation of normalize_event: the routing key takes precedence over the
\* payload for the device.
normalize_event_topic_first(payload, topic) ==
  LET payload_device == Or(payload.deviceId, payload.device_id)
      payload_zone == Or(payload.zoneId, payload.zone_id)
      payload_site == Or(payload.siteId, payload.site_id)
      t == parse_topic_site_device(topic)
      site_id == Or(payload_site, Or(t[1], DEFAULT_SITE_ID))
      device_id == Or(t[2], payload_device)
      zone_id == payload_zone
  IN IF device_id = "" \/ zone_id = ""
     THEN [ok |-> FALSE, site_id |-> "", device_id |-> "", zone_id |-> ""]
     ELSE [ok |-> TRUE, site_id |-> site_id, device_id |-> device_id, zone_id |-> zone_id]

\* ok = FALSE stands for the ValueError.
normalize_event(payload, topic) ==
  LET payload_device == Or(payload.deviceId, payload.device_id)
      payload_zone == Or(payload.zoneId, payload.zone_id)
      payload_site == Or(payload.siteId, payload.site_id)
      t == parse_topic_site_device(topic)
      site_id == Or(payload_site, Or(t[1], DEFAULT_SITE_ID))
      device_id == Or(payload_device, t[2])
      zone_id == payload_zone
  IN IF device_id = "" \/ zone_id = ""
     THEN [ok |-> FALSE, site_id |-> "", device_id |-> "", zone_id |-> ""]
     ELSE [ok |-> TRUE, site_id |-> site_id, device_id |-> device_id, zone_id |-> zone_id]

\* ------------------------------------------------------------------- state
VARIABLES
  devices,       \* table devices: (site_id, device_id) -> last_seen, 0 = no row
  zones,         \* table zones: (site_id, zone_id) -> zone_name, "" = no row
  zone_history,  \* table zone_history: sequence of rows, id = position
  clock,         \* the database clock
  wk,            \* per worker: position in process_event and its locals
                 \* (attempts: transactions begun for the event; fresh: the
                 \* device had no Visit when the event arrived)
  hist,          \* per device: the events processed successfully, in commit order
  resp           \* the response the backend API is about to return, if any

vars == <<devices, zones, zone_history, clock, wk, hist, resp>>

\* No API request is being answered.
NoResp == [op |-> "none"]

NoPend == [device |-> FALSE, zone |-> FALSE, close |-> 0, insert |-> FALSE]

Idle == [pc |-> "idle", site_id |-> "", device_id |-> "", zone_id |-> "",
         now |-> 0, open_visit |-> 0, attempts |-> 0, fresh |-> FALSE,
         pend |-> NoPend, locks |-> {}]

KeyOf(r) == <<r.site_id, r.device_id>>

\* WHERE site_id = %s AND device_id = %s AND end_time IS NULL, on a table value
OpenVisitsIn(h, k) ==
  {i \in DOMAIN h : KeyOf(h[i]) = k /\ h[i].end_time = 0}

OpenVisits(k) == OpenVisitsIn(zone_history, k)

VisitsOf(k) == {i \in DOMAIN zone_history : KeyOf(zone_history[i]) = k}

\* ------------------------------------------------------------ transactions
\* The committed tables after the buffered writes p of worker record r.
DevicesAfter(r, p) ==
  IF p.device THEN [devices EXCEPT ![KeyOf(r)] = r.now] ELSE devices

ZonesAfter(r, p) ==
  IF p.zone THEN [zones EXCEPT ![<<r.site_id, r.zone_id>>] = r.zone_id] ELSE zones

\* Mutation of HistoryAfter: the zone change forgets the INSERT of the new Visit.
HistoryAfterCloseOnly(r, p) ==
  IF p.close # 0
  THEN [zone_history EXCEPT ![p.close].end_time = r.now]
  ELSE IF p.insert
       THEN Append(zone_history, [site_id |-> r.site_id, device_id |-> r.device_id,
                                  zone_id |-> r.zone_id, start_time |-> r.now, end_time |-> 0])
       ELSE zone_history

\* Mutation of HistoryAfter: the close is written without the id filter and sets
\* end_time on every Visit of the device.
HistoryAfterCloseAll(r, p) ==
  LET closed == IF p.close # 0
                THEN [i \in DOMAIN zone_history |->
                        IF KeyOf(zone_history[i]) = KeyOf(r)
                        THEN [zone_history[i] EXCEPT !.end_time = r.now]
                        ELSE zone_history[i]]
                ELSE zone_history
  IN IF p.insert
     THEN Append(closed, [site_id |-> r.site_id, device_id |-> r.device_id,
                          zone_id |-> r.zone_id, start_time |-> r.now, end_time |-> 0])
     ELSE closed

\* Mutation of HistoryAfter: the commit also sweeps the ledger and closes the
\* open Visits of the other devices that were last seen before this event.
HistoryAfterSweep(r, p) ==
  LET closed == [i \in DOMAIN zone_history |->
                   IF \/ i = p.close
                      \/ /\ p.insert
                         /\ KeyOf(zone_history[i]) # KeyOf(r)
                         /\ zone_history[i].end_time = 0
                         /\ devices[KeyOf(zone_history[i])] < r.now
                   THEN [zone_history[i] EXCEPT !.end_time = r.now]
                   ELSE zone_history[i]]
  IN IF p.insert
     THEN Append(closed, [site_id |-> r.site_id, device_id |-> r.device_id,
                          zone_id |-> r.zone_id, start_time |-> r.now, end_time |-> 0])
     ELSE closed

\* Mutation of HistoryAfter: the close is stamped with the time of the statement
\* (clock_timestamp()) instead of the transaction's NOW().
HistoryAfterCloseAtClock(r, p) ==
  LET closed == IF p.close # 0
                THEN [zone_history EXCEPT ![p.close].end_time = clock]
                ELSE zone_history
  IN IF p.insert
     THEN Append(closed, [site_id |-> r.site_id, device_id |-> r.device_id,
                          zone_id |-> r.zone_id, start_time |-> r.now, end_time |-> 0])
     ELSE closed

\* Mutation of HistoryAfter: the close ends the Visit at the device's previous
\* last_seen, the end the history reports for a stale Visit.
HistoryAfterCloseAtLastSeen(r, p) ==
  LET closed == IF p.close # 0
                THEN [zone_history EXCEPT ![p.close].end_time = devices[KeyOf(r)]]
                ELSE zone_history
  IN IF p.insert
     THEN Append(closed, [site_id |-> r.site_id, device_id |-> r.device_id,
                          zone_id |-> r.zone_id, start_time |-> r.now, end_time |-> 0])
     ELSE closed

HistoryAfter(r, p) ==
  LET closed == IF p.close # 0
                THEN [zone_history EXCEPT ![p.close].end_time = r.now]
                ELSE zone_history
  IN IF p.insert
     THEN Append(closed, [site_id |-> r.site_id, device_id |-> r.device_id,
                          zone_id |-> r.zone_id, start_time |-> r.now, end_time |-> 0])
     ELSE closed

\* Mutation of RowLockedByOther: statements never wait for another transaction
\* (no FOR UPDATE, no lock on the row an upsert writes).
NoRowLocks(w, row) == FALSE

\* A row (or unique-index entry) is locked by a transaction other than w's.
RowLockedByOther(w, row) ==
  \E o \in Workers \ {w} : row \in wk[o].locks

\* uq_open_visit_per_device: an open Visit of the device other than the one this
\* transaction has closed is already committed.
UniqueViolation(r, p) ==
  OpenVisits(KeyOf(r)) \ {p.close} # {}

\* Mutation of zone_inserted: the zones upsert is written with DO UPDATE SET
\* zone_name = EXCLUDED.zone_name, so it takes effect on an existing row too.
zone_overwritten(zone_name) == TRUE

\* INSERT INTO zones .. ON CONFLICT (site_id, zone_id) DO NOTHING: the insert
\* takes effect only when the row does not exist.
zone_inserted(zone_name) == zone_name = ""

\* Mutation of same_zone: the zones are always found equal, no event is a zone
\* change.
always_same_zone(open_visit, zone_id) == TRUE

\* Mutation of same_zone: the zones are never found equal, every event is a
\* zone change.
never_same_zone(open_visit, zone_id) == FALSE

\* if open_visit["zone_id"] == zone_id
same_zone(open_visit, zone_id) == open_visit.zone_id = zone_id

\* Mutation of second_attempt: the re-read is not recognised as the second
\* attempt, so an absent open Visit leads to the creation INSERT again.
never_second_attempt(r) == FALSE

\* The SELECT is the re-read inside the except block (cur2).
second_attempt(r) == r.attempts > 1

\* One statement of worker w: buffer the writes p, take the locks, move to pc.
\* With autocommit on, the statement is its own transaction.
Execute(w, r, p, newlocks) ==
  IF autocommit
  THEN /\ devices' = DevicesAfter(r, p)
       /\ zones' = ZonesAfter(r, p)
       /\ zone_history' = HistoryAfter(r, p)
       /\ wk' = [wk EXCEPT ![w] = [r EXCEPT !.pend = NoPend, !.locks = {}]]
  ELSE /\ UNCHANGED <<devices, zones, zone_history>>
       /\ wk' = [wk EXCEPT ![w] = [r EXCEPT !.pend = p, !.locks = @ \cup newlocks]]

\* Mutation of RollbackAndRaise: the exception is raised with the transaction
\* left open (no rollback, connection not closed), so its row locks stay held.
RaiseWithoutRollback(w) ==
  /\ wk' = [wk EXCEPT ![w].pc = "failed"]
  /\ UNCHANGED <<devices, zones, zone_history, clock, hist, resp>>

\* except Exception: conn.rollback(); raise; finally: conn.close().  The
\* exception reaches on_message's except clause; the event is not recorded as
\* processed.
RollbackAndRaise(w) ==
  /\ wk' = [wk EXCEPT ![w] = [Idle EXCEPT !.pc = "failed"]]
  /\ UNCHANGED <<devices, zones, zone_history, clock, hist, resp>>

\* ----------------------------------------------------------------- actions
Init ==
  /\ devices = [k \in Keys |-> 0]
  /\ zones = [zk \in ZoneKeys |-> ""]
  /\ zone_history = <<>>
  /\ clock = 0
  /\ wk = [w \in Workers |-> Idle]
  /\ hist = [k \in Keys |-> <<>>]
  /\ resp = NoResp

\* on_message -> process_event: a message arrives (at a new instant of the
\* clock); normalize, connect, and begin the transaction (psycopg2 sends BEGIN
\* ahead of the first statement).  For a malformed event normalize_event raises
\* ValueError before any connection is made, and the worker is in on_message's
\* except clause.
Deliver(w, m) ==
  /\ wk[w].pc = "idle"
  /\ clock' = clock + 1
  /\ LET n == normalize_event(m.payload, m.topic)
     IN IF ~n.ok
        THEN wk' = [wk EXCEPT ![w] = [Idle EXCEPT !.pc = "rejected"]]
        ELSE wk' = [wk EXCEPT ![w] = [Idle EXCEPT !.pc = "device",
                                                  !.site_id = n.site_id,
                                                  !.device_id = n.device_id,
                                                  !.zone_id = n.zone_id,
                                                  !.now = clock + 1,
                                                  !.attempts = 1,
                                                  !.fresh = VisitsOf(<<n.site_id, n.device_id>>) = {}]]
  /\ UNCHANGED <<devices, zones, zone_history, hist, resp>>

\* on_message, for the messages that arrive up to the last instant of the clock.
OnMessage(w, m) ==
  /\ clock < MaxTime
  /\ Deliver(w, m)

\* ensure_master_data_site: the upsert of the devices row (last_seen = NOW())
\* and INSERT INTO zones .. ON CONFLICT DO NOTHING.  The upsert waits for the
\* transaction that holds the devices row; a zones row is only ever inserted
\* by a transaction that holds the devices row of the site's device.
ensure_master_data_site(w) ==
  LET r == wk[w]
      drow == <<"device", r.site_id, r.device_id>>
      zrow == <<"zone", r.site_id, r.zone_id>>
      absent == zone_inserted(zones[<<r.site_id, r.zone_id>>])
  IN /\ r.pc = "device"
     /\ ~RowLockedByOther(w, drow)
     /\ ~RowLockedByOther(w, zrow)
     /\ Execute(w, [r EXCEPT !.pc = "select"],
                [r.pend EXCEPT !.device = TRUE, !.zone = absent],
                IF absent THEN {drow, zrow} ELSE {drow})
     /\ UNCHANGED <<clock, hist, resp>>

\* SELECT .. WHERE end_time IS NULL ORDER BY start_time DESC LIMIT 1 FOR UPDATE
\* and the branch on its result.
SelectOpenVisit(w) ==
  LET r == wk[w]
      cand == OpenVisits(KeyOf(r))
  IN /\ r.pc = "select"
     /\ IF cand = {}
        THEN IF second_attempt(r)
             THEN RollbackAndRaise(w)
             ELSE /\ Execute(w, [r EXCEPT !.pc = "insert"], r.pend, {})
                  /\ UNCHANGED <<clock, hist, resp>>
        ELSE \E i \in cand :
               /\ \A j \in cand : zone_history[j].start_time <= zone_history[i].start_time
               /\ ~RowLockedByOther(w, <<"visit", i>>)
               /\ Execute(w, [r EXCEPT !.open_visit = i,
                                       !.pc = IF same_zone(zone_history[i], r.zone_id)
                                              THEN "touch" ELSE "close"],
                          r.pend, {<<"visit", i>>})
               /\ UNCHANGED <<clock, hist, resp>>

\* except psycopg2.errors.UniqueViolation: conn.rollback(), then the second
\* attempt in a new transaction.
RetryAfterViolation(w) ==
  /\ clock < MaxTime
  /\ clock' = clock + 1
  /\ wk' = [wk EXCEPT ![w] = [@ EXCEPT !.pc = "device", !.attempts = @ + 1,
                                       !.now = clock + 1,
                                       !.pend = NoPend, !.locks = {}]]
  /\ UNCHANGED <<devices, zones, zone_history, hist, resp>>

\* open_visit is None: INSERT INTO zone_history; on UniqueViolation roll back
\* and run the second attempt.
InsertFirstVisit(w) ==
  LET r == wk[w]
      row == <<"uq", r.site_id, r.device_id>>
  IN /\ r.pc = "insert"
     /\ ~RowLockedByOther(w, row)
     /\ IF UniqueViolation(r, r.pend)
        THEN RetryAfterViolation(w)
        ELSE /\ Execute(w, [r EXCEPT !.pc = "commit"],
                        [r.pend EXCEPT !.insert = TRUE], {row})
             /\ UNCHANGED <<clock, hist, resp>>

\* same zone: UPDATE devices SET last_seen = NOW()
TouchDevice(w) ==
  LET r == wk[w]
  IN /\ r.pc = "touch"
     /\ Execute(w, [r EXCEPT !.pc = "commit"], [r.pend EXCEPT !.device = TRUE],
                {<<"device", r.site_id, r.device_id>>})
     /\ UNCHANGED <<clock, hist, resp>>

\* zone change: UPDATE zone_history SET end_time = NOW() WHERE id = open_visit.id
CloseVisit(w) ==
  LET r == wk[w]
  IN /\ r.pc = "close"
     /\ Execute(w, [r EXCEPT !.pc = "open"], [r.pend EXCEPT !.close = r.open_visit], {})
     /\ UNCHANGED <<clock, hist, resp>>

\* zone change: INSERT INTO zone_history; a UniqueViolation here is not caught.
InsertNextVisit(w) ==
  LET r == wk[w]
      row == <<"uq", r.site_id, r.device_id>>
  IN /\ r.pc = "open"
     /\ ~RowLockedByOther(w, row)
     /\ IF UniqueViolation(r, r.pend)
        THEN RollbackAndRaise(w)
        ELSE /\ Execute(w, [r EXCEPT !.pc = "commit"],
                        [r.pend EXCEPT !.insert = TRUE], {row})
             /\ UNCHANGED <<clock, hist, resp>>

\* conn.commit(); return
Commit(w) ==
  LET r == wk[w]
  IN /\ r.pc = "commit"
     /\ devices' = DevicesAfter(r, r.pend)
     /\ zones' = ZonesAfter(r, r.pend)
     /\ zone_history' = HistoryAfter(r, r.pend)
     /\ wk' = [wk EXCEPT ![w] = Idle]
     /\ hist' = [hist EXCEPT ![KeyOf(r)] = Append(@, [zone_id |-> r.zone_id, now |-> r.now])]
     /\ UNCHANGED <<clock, resp>>

\* A statement fails (ledger unavailable, transaction failure).
Fail(w) ==
  /\ wk[w].pc \notin {"idle", "rejected", "failed"}
  /\ RollbackAndRaise(w)

\* on_message: except Exception as e: print(..) for the rejected or failed
\* event; the callback returns and the consumer goes on.
LogError(w) ==
  /\ wk[w].pc \in {"rejected", "failed"}
  /\ wk' = [wk EXCEPT ![w] = Idle]
  /\ UNCHANGED <<devices, zones, zone_history, clock, hist, resp>>

Next ==
  \E w \in Workers :
    \/ \E m \in Messages : OnMessage(w, m)
    \/ ensure_master_data_site(w)
    \/ SelectOpenVisit(w)
    \/ InsertFirstVisit(w)
    \/ TouchDevice(w)
    \/ CloseVisit(w)
    \/ InsertNextVisit(w)
    \/ Commit(w)
    \/ Fail(w)
    \/ LogError(w)

Spec == Init /\ [][Next]_vars

\* A Ledger failure: the ledger answers the creation INSERT with a uniqueness
\* violation although no open Visit of the device is committed.
LedgerFailure(w) ==
  /\ wk[w].pc = "insert"
  /\ ~RowLockedByOther(w, <<"uq", wk[w].site_id, wk[w].device_id>>)
  /\ ~UniqueViolation(wk[w], wk[w].pend)
  /\ RetryAfterViolation(w)

NextWithLedgerFailure ==
  \/ Next
  \/ \E w \in Workers : LedgerFailure(w)

\* The ingestion over a ledger that can fail in this way.
SpecLedgerFailure == Init /\ [][NextWithLedgerFailure]_vars

\* ------------------------------------------------------------- normalizer
\* Every combination of the six payload keys, present or not, on routing keys
\* of the expected form and of other forms.
NormalizerInputs ==
  { [payload |-> [deviceId |-> a, device_id |-> b, zoneId |-> c, zone_id |-> d,
                  siteId |-> e, site_id |-> f],
     topic |-> t] :
      a \in {"", "d1"}, b \in {"", "d2"}, c \in {"", "z1"}, d \in {"", "z2"},
      e \in {"", "s2"}, f \in {"", "s3"},
      t \in { <<"x", "y">>,
              <<"site", "s4", "device", "d9", "location">>,
              <<"site", "s4", "device", "d9", "location", "x">>,
              <<"site", "", "device", "d9", "location">>,
              <<"sites", "s4", "device", "d9", "location">> } }

\* One worker at a time receives an arbitrary message; its connection is then
\* lost, so that the event ends before the first statement.
NextNormalizer ==
  \E w \in Workers :
    \/ \E m \in NormalizerInputs :
         /\ \A o \in Workers : wk[o].pc = "idle"
         /\ OnMessage(w, m)
    \/ Fail(w)
    \/ LogError(w)

\* The normalizer on arbitrary messages.
SpecNormalizer == Init /\ [][NextNormalizer]_vars

\* ------------------------------------------------------------ backend API
\* The bodies of the POST /zones requests.
ZoneUpserts == {[siteId |-> "site-001", zoneId |-> "z1", zoneName |-> "Lobby"]}

\* POST /zones: INSERT INTO zones .. ON CONFLICT (site_id, zone_id) DO UPDATE
\* SET zone_name = EXCLUDED.zone_name, committed at once.  The request arrives
\* at a new instant of the clock; the statement waits while an ingestion
\* transaction holds the row it has inserted.
upsert_zone(zone) ==
  /\ clock < MaxTime
  /\ clock' = clock + 1
  /\ ~RowLockedByOther(0, <<"zone", zone.siteId, zone.zoneId>>)
  /\ zones' = [zones EXCEPT ![<<zone.siteId, zone.zoneId>>] = zone.zoneName]
  /\ UNCHANGED <<devices, zone_history, wk, hist, resp>>

NextWithZoneApi ==
  \/ Next
  \/ \E zone \in ZoneUpserts : upsert_zone(zone)

\* The ingestion next to the zone API.
SpecZoneApi == Init /\ [][NextWithZoneApi]_vars

\* ------------------------------------------------------------ read API
STALE_THRESHOLD_MINUTES == 30

\* The length of one instant of the clock.
MinutesPerInstant == 5
SecondsPerInstant == MinutesPerInstant * 60

\* timedelta(minutes=STALE_THRESHOLD_MINUTES), in instants
StaleThreshold == STALE_THRESHOLD_MINUTES \div MinutesPerInstant

\* (hours || ' hours')::interval, in instants
HoursInterval(hours) == (hours * 60) \div MinutesPerInstant

\* durationSeconds = None
None == -1

Max(a, b) == IF a >= b THEN a ELSE b

\* The time that has passed since the last message when a request is served.
HistoryDelays == {0, StaleThreshold, StaleThreshold + 1}
MetricsDelays == {0, HoursInterval(1) - 2, HoursInterval(1) - 1}

\* ORDER BY zh.start_time DESC, on a set of row ids
RECURSIVE ByStartTimeDesc(_)
ByStartTimeDesc(S) ==
  IF S = {}
  THEN <<>>
  ELSE LET i == CHOOSE i \in S :
                  \A j \in S : zone_history[j].start_time <= zone_history[i].start_time
       IN <<i>> \o ByStartTimeDesc(S \ {i})

\* LIMIT %s
Limit(s, limit) == SubSeq(s, 1, IF Len(s) < limit THEN Len(s) ELSE limit)

\* Mutation of is_active: a device last seen exactly at the cutoff counts as
\* stale.
is_active_after_cutoff(last_seen, stale_cutoff) == last_seen > stale_cutoff

\* is_active = last_seen >= stale_cutoff
is_active(last_seen, stale_cutoff) == last_seen >= stale_cutoff

\* The item device_history builds for the Visit with id i.
history_item(i, last_seen, stale_cutoff) ==
  LET v == zone_history[i]
      is_open == v.end_time = 0
      active == is_open /\ last_seen # 0 /\ is_active(last_seen, stale_cutoff)
      effective_end == IF is_open /\ last_seen # 0 /\ ~active THEN last_seen ELSE v.end_time
      duration_seconds == IF effective_end # 0 /\ v.start_time # 0
                          THEN Max(0, (effective_end - v.start_time) * SecondsPerInstant)
                          ELSE None
  IN [id |-> i, zoneId |-> v.zone_id, zoneName |-> zones[<<v.site_id, v.zone_id>>],
      startTime |-> v.start_time, endTime |-> v.end_time,
      effectiveEndTime |-> effective_end, durationSeconds |-> duration_seconds,
      isOpen |-> is_open, isActive |-> active]

\* No event is being processed: every transaction has ended.  A response
\* depends on the committed tables only, so the requests are served between
\* the events.
Quiescent == \A w \in Workers : wk[w].pc = "idle"

\* The response of GET /device/{device_id}/history at time now
history_response(device_id, limit, siteId, now) ==
  LET site_id == Or(siteId, DEFAULT_SITE_ID)
      k == <<site_id, device_id>>
      stale_cutoff == now - StaleThreshold
      visits == Limit(ByStartTimeDesc(VisitsOf(k)), limit)
  IN IF limit <= 0 \/ limit > 2000
     THEN [op |-> "device_history", status |-> 400]
     ELSE IF devices[k] = 0
     THEN [op |-> "device_history", status |-> 404]
     ELSE [op |-> "device_history", status |-> 200, now |-> now,
           siteId |-> site_id, deviceId |-> device_id,
           lastSeen |-> devices[k],
           items |-> [n \in DOMAIN visits |->
                        history_item(visits[n], devices[k], stale_cutoff)]]

\* GET /device/{device_id}/history at time now
device_history(device_id, limit, siteId, now) ==
  /\ Quiescent
  /\ resp = NoResp
  /\ resp' = history_response(device_id, limit, siteId, now)
  /\ UNCHANGED <<devices, zones, zone_history, clock, wk, hist>>

\* zone_history.duration, the length of a closed Visit
duration(v) == v.end_time - v.start_time

\* SUM(EXTRACT(EPOCH FROM zh.duration)) over the rows with ids in S
RECURSIVE SumSeconds(_)
SumSeconds(S) ==
  IF S = {}
  THEN 0
  ELSE LET i == CHOOSE i \in S : TRUE
       IN duration(zone_history[i]) * SecondsPerInstant + SumSeconds(S \ {i})

\* Mutation of most_visited_where: the site filter is missing.
most_visited_where_any_site(v, site_id, cutoff) ==
  /\ v.start_time > cutoff
  /\ v.end_time # 0

\* WHERE zh.site_id = %s AND zh.start_time > NOW() - interval
\*   AND zh.end_time IS NOT NULL
most_visited_where(v, site_id, cutoff) ==
  /\ v.site_id = site_id
  /\ v.start_time > cutoff
  /\ v.end_time # 0

\* ORDER BY total_seconds DESC: the orders the query may return the rows in
OrderByTotalDesc(rows) ==
  {s \in [1..Cardinality(rows) -> rows] :
     /\ \A a, b \in DOMAIN s : a # b => s[a] # s[b]
     /\ \A a, b \in DOMAIN s : a < b => s[a].totalSeconds >= s[b].totalSeconds}

\* GET /metrics/most-visited at time now
most_visited(hours, siteId, now) ==
  LET site_id == Or(siteId, DEFAULT_SITE_ID)
      cutoff == now - HoursInterval(hours)
      matched == {i \in DOMAIN zone_history :
                    /\ most_visited_where(zone_history[i], site_id, cutoff)
                    /\ zones[<<zone_history[i].site_id, zone_history[i].zone_id>>] # ""}
      groups == {zone_history[i].zone_id : i \in matched}
      rows == {[zoneId |-> z,
                zoneName |-> zones[<<site_id, z>>],
                totalSeconds |-> SumSeconds({i \in matched : zone_history[i].zone_id = z})] :
               z \in groups}
  IN /\ Quiescent
     /\ resp = NoResp
     /\ IF hours <= 0 \/ hours > 24 * 30
        THEN resp' = [op |-> "most_visited", status |-> 400]
        ELSE \E items \in OrderByTotalDesc(rows) :
               resp' = [op |-> "most_visited", status |-> 200, now |-> now,
                        siteId |-> site_id, windowHours |-> hours, items |-> items]
     /\ UNCHANGED <<devices, zones, zone_history, clock, wk, hist>>

\* Mutation of ByStartTime: the window is ordered by start_time DESC, so LEAD
\* gives the Visit before.
RECURSIVE ByStartTimeReversed(_)
ByStartTimeReversed(S) ==
  IF S = {}
  THEN <<>>
  ELSE LET i == CHOOSE i \in S :
                  \A j \in S : zone_history[j].start_time <= zone_history[i].start_time
       IN <<i>> \o ByStartTimeReversed(S \ {i})

\* ORDER BY start_time, on a set of row ids
RECURSIVE ByStartTime(_)
ByStartTime(S) ==
  IF S = {}
  THEN <<>>
  ELSE LET i == CHOOSE i \in S :
                  \A j \in S : zone_history[i].start_time <= zone_history[j].start_time
       IN <<i>> \o ByStartTime(S \ {i})

\* ORDER BY frequency DESC: the orders the query may return the rows in
OrderByFrequencyDesc(rows) ==
  {s \in [1..Cardinality(rows) -> rows] :
     /\ \A a, b \in DOMAIN s : a # b => s[a] # s[b]
     /\ \A a, b \in DOMAIN s : a < b => s[a].frequency >= s[b].frequency}

\* GET /metrics/transitions
transitions(limit, siteId) ==
  LET site_id == Or(siteId, DEFAULT_SITE_ID)
      \* PARTITION BY device_id ORDER BY start_time, WHERE site_id = %s
      partition == [d \in DeviceIds |-> ByStartTime(VisitsOf(<<site_id, d>>))]
      \* the rows of `ordered` with next_zone IS NOT NULL: (current_zone, next_zone)
      ordered == [o \in {<<d, n>> \in DeviceIds \X (1..Len(zone_history)) :
                           n < Len(partition[d])} |->
                    <<zone_history[partition[o[1]][o[2]]].zone_id,
                      zone_history[partition[o[1]][o[2] + 1]].zone_id>>]
      groups == {ordered[o] : o \in DOMAIN ordered}
      rows == {[currentZone |-> g[1], nextZone |-> g[2],
                frequency |-> Cardinality({o \in DOMAIN ordered : ordered[o] = g})] :
               g \in groups}
  IN /\ Quiescent
     /\ resp = NoResp
     /\ IF limit <= 0 \/ limit > 500
        THEN resp' = [op |-> "transitions", status |-> 400]
        ELSE \E items \in OrderByFrequencyDesc(rows) :
               resp' = [op |-> "transitions", status |-> 200, siteId |-> site_id,
                        limit |-> limit, items |-> Limit(items, limit)]
     /\ UNCHANGED <<devices, zones, zone_history, clock, wk, hist>>

\* The response is returned to the client.
Reply ==
  /\ resp # NoResp
  /\ resp' = NoResp
  /\ UNCHANGED <<devices, zones, zone_history, clock, wk, hist>>

NextWithReads ==
  \/ \E w \in Workers :
       \/ \E m \in Messages : resp = NoResp /\ OnMessage(w, m)
       \/ ensure_master_data_site(w)
       \/ SelectOpenVisit(w)
       \/ InsertFirstVisit(w)
       \/ TouchDevice(w)
       \/ CloseVisit(w)
       \/ InsertNextVisit(w)
       \/ Commit(w)
       \/ Fail(w)
       \/ LogError(w)
  \/ \E device_id \in DeviceIds, limit \in {0, 1, 200}, siteId \in {"", "s2"}, d \in HistoryDelays :
       device_history(device_id, limit, siteId, clock + d)
  \/ \E hours \in {0, 1}, siteId \in {"", "s2"}, d \in MetricsDelays :
       most_visited(hours, siteId, clock + d)
  \/ \E limit \in {0, 1, 50}, siteId \in {"", "s2"} :
       transitions(limit, siteId)
  \/ Reply

\* The ingestion next to the read API.
SpecReads == Init /\ [][NextWithReads]_vars

\* ------------------------------------------------------ transition metrics
\* Events of the devices of the default site, each in either zone.
TransitionMessages ==
  { [payload |-> [NoPayload EXCEPT !.deviceId = d, !.zoneId = z],
     topic |-> <<"x", "y">>] : d \in DeviceIds, z \in ZoneIds }

\* The events are processed one at a time, and the transition frequencies are
\* requested between them.
NextTransitions ==
  \/ \E w \in Workers :
       \/ \E m \in TransitionMessages :
            /\ Quiescent
            /\ resp = NoResp
            /\ clock < MaxSerialTime
            /\ Deliver(w, m)
       \/ ensure_master_data_site(w)
       \/ SelectOpenVisit(w)
       \/ InsertFirstVisit(w)
       \/ TouchDevice(w)
       \/ CloseVisit(w)
       \/ InsertNextVisit(w)
       \/ Commit(w)
       \/ Fail(w)
       \/ LogError(w)
  \/ \E limit \in {0, 1, 50}, siteId \in {"", "s2"} :
       transitions(limit, siteId)
  \/ Reply

\* Longer histories of several devices of a site, next to the transition
\* metrics.
SpecTransitions == Init /\ [][NextTransitions]_vars

\* ---------------------------------------------------------------- silence
\* A silence: no message arrives for longer than the stale threshold.  It is
\* longer than the instants the messages of a run take, so clock % Silence is
\* the number of messages received so far.
Silence == StaleThreshold + 1

\* Events of one device of the default site, in either zone.
SilenceMessages ==
  { [payload |-> [NoPayload EXCEPT !.deviceId = "d1", !.zoneId = z],
     topic |-> <<"x", "y">>] : z \in ZoneIds }

\* No message arrives for the length of a silence; this happens once.
PassSilence ==
  /\ Quiescent
  /\ clock < Silence
  /\ clock' = clock + Silence
  /\ UNCHANGED <<devices, zones, zone_history, wk, hist, resp>>

\* A client polls the device's history at the time of the clock; resp keeps
\* the last response it has received.
PollHistory(device_id, limit, siteId) ==
  /\ Quiescent
  /\ resp' = history_response(device_id, limit, siteId, clock)
  /\ UNCHANGED <<devices, zones, zone_history, clock, wk, hist>>

\* The ingestion with a silence before, between or after the events; a client
\* polls the device's history while no event is being processed.
NextWithSilence ==
  \/ \E w \in Workers :
       \/ \E m \in SilenceMessages :
            /\ clock % Silence < MaxTime
            /\ Deliver(w, m)
       \/ ensure_master_data_site(w)
       \/ SelectOpenVisit(w)
       \/ InsertFirstVisit(w)
       \/ TouchDevice(w)
       \/ CloseVisit(w)
       \/ InsertNextVisit(w)
       \/ Commit(w)
       \/ Fail(w)
       \/ LogError(w)
  \/ \E device_id \in {"d1"}, limit \in {200}, siteId \in {""} :
       PollHistory(device_id, limit, siteId)
  \/ PassSilence

\* The ingestion and the device history over a silence.
SpecSilence == Init /\ [][NextWithSilence]_vars

\* ------------------------------------------------------------------ typing
TypeOK ==
  /\ devices \in [Keys -> Times]
  /\ zones \in [ZoneKeys -> ZoneNames \cup {""}]
  /\ clock \in Times
  /\ Len(zone_history) <= MaxTime
  /\ \A w \in Workers : wk[w].now \in Times /\ wk[w].open_visit \in 0..Len(zone_history)

\* ------------------------------------------------------ reading the ledger
InFlight(w) == wk[w].pc \notin {"idle", "rejected", "failed"}

\* The worker is in the zone-change branch: it has read an open Visit of another
\* zone and has not finished.
InZoneChange(w) ==
  /\ wk[w].pc \in {"close", "open", "commit"}
  /\ wk[w].open_visit # 0
  /\ wk[w].open_visit \in DOMAIN zone_history
  /\ ~same_zone(zone_history[wk[w].open_visit], wk[w].zone_id)

\* The step is the successful return of worker w's process_event: conn.commit()
\* has run and the event is recorded as processed.
Returns(w) ==
  /\ wk[w].pc = "commit"
  /\ wk'[w].pc = "idle"
  /\ Len(hist'[KeyOf(wk[w])]) = Len(hist[KeyOf(wk[w])]) + 1

\* The Visits whose end_time the step sets, and the Visits the step inserts.
ClosedByStep(k) ==
  {i \in OpenVisits(k) : zone_history'[i].end_time # 0}

InsertedByStep(k) ==
  {i \in DOMAIN zone_history' \ DOMAIN zone_history : KeyOf(zone_history'[i]) = k}

\* ------------------------------------------------------------------ claims

\* C1: in every reachable ledger state, under any interleaving of the workers,
\* each (siteId, deviceId) has at most one Visit whose endTime is absent.
AtMostOneOpenVisit ==
  \A k \in Keys : Cardinality(OpenVisits(k)) <= 1

\* C1 witness: a device with a closed and an open Visit while two workers are
\* in the middle of events for that same device.
TwoWorkersOnDeviceWithVisits ==
  \E k \in Keys : \E w1, w2 \in Workers :
    /\ w1 # w2
    /\ InFlight(w1) /\ InFlight(w2)
    /\ KeyOf(wk[w1]) = k /\ KeyOf(wk[w2]) = k
    /\ Cardinality(VisitsOf(k)) >= 1
    /\ Cardinality(OpenVisits(k)) = 1

\* C2: once an event of device d has returned successfully, the ledger holds
\* exactly one open Visit of d; d has no open Visit only before its first
\* successfully processed event.
ExactlyOneOpenAfterSuccess ==
  \A k \in Keys :
    IF hist[k] = <<>>
    THEN OpenVisits(k) = {}
    ELSE Cardinality(OpenVisits(k)) = 1

\* C2 witness: a device after several successful events, one of which closed a
\* Visit, while another device has not been seen yet.
SeveralEventsProcessed ==
  \E k, k2 \in Keys :
    /\ Len(hist[k]) >= 2
    /\ Cardinality(VisitsOf(k)) >= 2
    /\ Cardinality(OpenVisits(k)) = 1
    /\ hist[k2] = <<>> /\ OpenVisits(k2) = {}

\* C3: from the moment a worker has read an open Visit of another zone until it
\* returns, every committed state has exactly one open Visit of the device, and
\* its commit sets endTime on exactly that Visit and inserts exactly one new
\* open Visit, of the event's zone.
ZoneChangeIsOneTransaction ==
  [][\A w \in Workers :
       InZoneChange(w) =>
         LET k == KeyOf(wk[w]) IN
           /\ Cardinality(OpenVisits(k)) = 1
           /\ Cardinality(OpenVisitsIn(zone_history', k)) = 1
           /\ Returns(w) =>
                /\ ClosedByStep(k) = {wk[w].open_visit}
                /\ Cardinality(InsertedByStep(k)) = 1
                /\ \A i \in InsertedByStep(k) :
                     /\ zone_history'[i].end_time = 0
                     /\ zone_history'[i].zone_id = wk[w].zone_id
           /\ ~Returns(w) => ClosedByStep(k) = {} /\ InsertedByStep(k) = {}
    ]_vars

\* C3 witness: a zone change has been committed: the device's first Visit is
\* closed and its second is open, in another zone.
ZoneChangeCommitted ==
  \E k \in Keys : \E i, j \in VisitsOf(k) :
    /\ i < j
    /\ zone_history[i].end_time # 0
    /\ zone_history[j].end_time = 0
    /\ zone_history[i].zone_id # zone_history[j].zone_id
    /\ zone_history[i].end_time = zone_history[j].start_time

\* The Visits of device k in creation order.
ChainOf(k) == SelectSeq(zone_history, LAMBDA v : KeyOf(v) = k)

\* The zones of the Visits that processing the events one at a time leaves,
\* starting from the chain of zones `chain`.
RECURSIVE Serial(_, _)
Serial(events, chain) ==
  IF events = <<>>
  THEN chain
  ELSE LET z == Head(events).zone_id
       IN Serial(Tail(events),
                 IF chain # <<>> /\ chain[Len(chain)] = z THEN chain ELSE Append(chain, z))

\* C4 as stated: a worker whose event arrived while the device had no Visit and
\* that did not create the Visit itself (it holds the winner's Visit) got there
\* through the retry after a uniqueness violation.
CreationLosersRecoverByRetry ==
  \A w \in Workers :
    (wk[w].fresh /\ wk[w].open_visit # 0) => wk[w].attempts = 2

\* C4 amended: workers racing on a device without a Visit are serialized by the
\* row lock of the Device upsert; a worker that does not create the Visit finds
\* the winner's Visit in its first read, with no uniqueness violation and no
\* retry, and the Visits of the device (zones, open/closed, creation order) are
\* those of processing the committed events one at a time in commit order.
CreationRaceIsSerial ==
  /\ \A w \in Workers :
       wk[w].fresh =>
         /\ wk[w].attempts = 1
         /\ wk[w].open_visit # 0 => OpenVisits(KeyOf(wk[w])) = {wk[w].open_visit}
  /\ \A k \in Keys :
       LET c == ChainOf(k) IN
         /\ [i \in 1..Len(c) |-> c[i].zone_id] = Serial(hist[k], <<>>)
         /\ \A i \in 1..Len(c) : (c[i].end_time = 0) <=> (i = Len(c))

\* C4 witness: the first two events of a device, for different zones, were in
\* progress at the same time (the one that committed second had begun first),
\* and left a closed and an open Visit.
CreationRaceDifferentZones ==
  \E k \in Keys :
    /\ Len(hist[k]) = 2
    /\ hist[k][2].now < hist[k][1].now
    /\ hist[k][1].zone_id # hist[k][2].zone_id
    /\ Len(ChainOf(k)) = 2

\* C5: a successful delivery of the event that was also the last one processed
\* for its device changes no Visit row and no Zone row; only the Device's
\* lastSeen is written.
RedeliveryCreatesNoVisit ==
  [][\A w \in Workers :
       LET k == KeyOf(wk[w]) IN
         ( /\ Returns(w)
           /\ hist[k] # <<>>
           /\ hist[k][Len(hist[k])].zone_id = wk[w].zone_id )
         => /\ zone_history' = zone_history
            /\ zones' = zones
            /\ devices' = [devices EXCEPT ![k] = wk[w].now]
    ]_vars

\* C5 witness: the first event of a device was delivered twice, to two workers
\* at the same time, and the device has one Visit.
ConcurrentDuplicateOfFirstEvent ==
  \E k \in Keys :
    /\ Len(hist[k]) = 2
    /\ hist[k][2].now < hist[k][1].now
    /\ hist[k][1].zone_id = hist[k][2].zone_id
    /\ Len(ChainOf(k)) = 1

\* C6: the open Visit a worker has read stays the device's only open Visit
\* until that worker ends, so only that worker sets its endTime; two workers
\* never hold an open Visit of the same device at the same time, and no two
\* transactions have buffered a close of the same Visit.
ZoneChangeRaceSerialized ==
  /\ \A w \in Workers :
       wk[w].open_visit # 0 => OpenVisits(KeyOf(wk[w])) = {wk[w].open_visit}
  /\ \A w1, w2 \in Workers :
       (w1 # w2 /\ InFlight(w1) /\ InFlight(w2) /\ KeyOf(wk[w1]) = KeyOf(wk[w2]))
       => /\ ~(wk[w1].open_visit # 0 /\ wk[w2].open_visit # 0)
          /\ ~(wk[w1].pend.close # 0 /\ wk[w1].pend.close = wk[w2].pend.close)

\* C6 witness: a device had an open Visit V; two workers received events for it;
\* the one that began later went first and replaced V, and the other now closes
\* the replacement (a Visit that began after this worker's own event).
SecondWorkerActsOnReplacement ==
  \E w \in Workers :
    /\ InZoneChange(w)
    /\ wk[w].pend.close = wk[w].open_visit
    /\ ~wk[w].fresh
    /\ zone_history[wk[w].open_visit].start_time > wk[w].now
    /\ \E i \in VisitsOf(KeyOf(wk[w])) : zone_history[i].end_time # 0

\* The step is the successful return of a same-zone event of worker w.
ReturnsSameZone(w) ==
  /\ Returns(w)
  /\ wk[w].open_visit # 0
  /\ same_zone(zone_history[wk[w].open_visit], wk[w].zone_id)

\* Lemma (part of C7): a same-zone event inserts no Visit, changes no Visit and
\* no Zone, and writes the event's processing time to the Device's lastSeen.
SameZoneFrame ==
  [][\A w \in Workers :
       ReturnsSameZone(w) =>
         /\ zone_history' = zone_history
         /\ zones' = zones
         /\ devices' = [devices EXCEPT ![KeyOf(wk[w])] = wk[w].now]
    ]_vars

\* C7: when the device's open Visit has the zone of the incoming event,
\* process_event inserts no Visit row and changes no Visit; the only ledger
\* change is that the Device's lastSeen advances to the processing time.
SameZoneOnlyAdvancesLastSeen ==
  [][\A w \in Workers :
       ReturnsSameZone(w) =>
         /\ zone_history' = zone_history
         /\ zones' = zones
         /\ devices' = [devices EXCEPT ![KeyOf(wk[w])] = wk[w].now]
         /\ devices'[KeyOf(wk[w])] >= devices[KeyOf(wk[w])]
    ]_vars

\* Lemma (C8): no worker ever reaches the second attempt.  Every transaction of
\* a device holds the lock of the Device row from its first statement to its
\* end, so the creation INSERT never meets a committed open Visit that its own
\* SELECT did not see.
RetryNeverTaken ==
  \A w \in Workers : wk[w].attempts <= 1

\* C8: process_event begins at most two transactions for an event (one retry);
\* when the re-read of the second attempt finds no open Visit, the event ends
\* there with the exception raised to on_message: it is not recorded as
\* processed, it is not tried again, and nothing of it is committed.
RetryOnceThenFail ==
  [][\A w \in Workers :
       /\ wk'[w].attempts <= 2
       /\ ( /\ wk[w].pc = "select" /\ wk[w].attempts = 2
            /\ OpenVisits(KeyOf(wk[w])) = {}
            /\ wk'[w] # wk[w] )
          => /\ wk'[w] = [Idle EXCEPT !.pc = "failed"]
             /\ UNCHANGED <<devices, zones, zone_history, hist>>
    ]_vars

\* C8 witness: a worker in its second attempt, after the uniqueness violation
\* and the repeated upserts, whose re-read finds no open Visit of the device.
RetryExhausted ==
  \E w \in Workers :
    /\ wk[w].pc = "select"
    /\ wk[w].attempts = 2
    /\ wk[w].pend.device
    /\ OpenVisits(KeyOf(wk[w])) = {}

\* C9: a Device's lastSeen never decreases, under any interleaving of the
\* workers, and every successfully processed event sets lastSeen to that
\* event's processing time.
LastSeenNeverDecreases ==
  [][/\ \A k \in Keys : devices'[k] >= devices[k]
     /\ \A w \in Workers : Returns(w) => devices'[KeyOf(wk[w])] = wk[w].now
    ]_vars

\* Lemma (part of C9): every successfully processed event sets lastSeen to that
\* event's processing time.
SuccessSetsLastSeen ==
  [][\A w \in Workers : Returns(w) => devices'[KeyOf(wk[w])] = wk[w].now]_vars

\* C10: no Visit row is ever removed or rewritten; a Visit's endTime goes from
\* absent to set only in a step that also inserts a new open Visit of the same
\* device, and once set it never changes.
VisitsClosedOnlyBySuccessor ==
  [][/\ Len(zone_history') >= Len(zone_history)
     /\ \A i \in DOMAIN zone_history :
          LET v == zone_history[i]
              v2 == zone_history'[i]
          IN /\ [v2 EXCEPT !.end_time = 0] = [v EXCEPT !.end_time = 0]
             /\ v.end_time # 0 => v2.end_time = v.end_time
             /\ (v.end_time = 0 /\ v2.end_time # 0) =>
                  \E j \in InsertedByStep(KeyOf(v)) : zone_history'[j].end_time = 0
    ]_vars

\* C10 witness: a device whose Visits were superseded twice: two closed Visits
\* and an open one.
TwoVisitsSuperseded ==
  \E k \in Keys :
    LET c == ChainOf(k) IN
      /\ Len(c) = 3
      /\ c[1].end_time # 0 /\ c[2].end_time # 0 /\ c[3].end_time = 0

\* C11: the Visits of a device are ordered by startTime and do not overlap: of
\* two Visits a, b of a device, a created before b, a's endTime is set and
\* a.startTime <= a.endTime <= b.startTime.
VisitsOrderedWithoutOverlap ==
  \A k \in Keys : \A i, j \in VisitsOf(k) :
    i < j =>
      /\ zone_history[i].end_time # 0
      /\ zone_history[i].start_time <= zone_history[i].end_time
      /\ zone_history[i].end_time <= zone_history[j].start_time

\* Lemma (part of C11): every Visit of a device but the one created last has
\* its endTime set.
EarlierVisitsAreClosed ==
  \A k \in Keys : \A i, j \in VisitsOf(k) :
    i < j => zone_history[i].end_time # 0

\* The event has no device or no zone after fallback: no payload device and no
\* device in the routing key, or no payload zone.
MissingAfterFallback(m) ==
  \/ /\ m.payload.deviceId = "" /\ m.payload.device_id = ""
     /\ parse_topic_site_device(m.topic)[2] = ""
  \/ m.payload.zoneId = "" /\ m.payload.zone_id = ""

\* C12: an event whose deviceId or zoneId is missing after fallback is rejected
\* before any ledger access: the worker that receives it holds no transaction,
\* no lock and no buffered write, and neither its receipt nor the end of its
\* handling creates or modifies a Device, Zone or Visit row.
MalformedEventRejected ==
  [][\A w \in Workers :
       /\ \A m \in Messages :
            (MissingAfterFallback(m) /\ OnMessage(w, m))
            => /\ wk'[w] = [Idle EXCEPT !.pc = "rejected"]
               /\ UNCHANGED <<devices, zones, zone_history, hist>>
       /\ (wk[w].pc = "rejected" /\ wk'[w] # wk[w])
          => /\ wk'[w] = Idle
             /\ UNCHANGED <<devices, zones, zone_history, hist>>
    ]_vars

\* C12 witness: a worker has rejected a malformed event while the ledger holds
\* a Visit and another worker is in the middle of a transaction.
MalformedEventDropped ==
  \E w, o \in Workers :
    /\ wk[w].pc = "rejected"
    /\ InFlight(o)
    /\ zone_history # <<>>

\* C13: an event that fails leaves no write behind.  No statement of a worker
\* changes the committed Device, Zone or Visit rows (lastSeen included) before
\* the worker's successful return, and the step in which its event fails
\* changes none of them either.
FailureRollsBackEveryWrite ==
  [][\A w \in Workers :
       /\ (wk'[w] # wk[w] /\ ~Returns(w))
          => UNCHANGED <<devices, zones, zone_history, hist>>
       /\ (wk[w].pc # "failed" /\ wk'[w].pc = "failed")
          => UNCHANGED <<devices, zones, zone_history, hist>>
    ]_vars

\* C13 witness: two events have arrived, one was committed and the other has
\* failed; the ledger holds exactly the committed event's Device refresh and
\* Visit.
OneEventFailedOneCommitted ==
  \E w \in Workers : \E k \in Keys :
    /\ wk[w].pc = "failed"
    /\ \A o \in Workers \ {w} : wk[o].pc = "idle"
    /\ clock = 2
    /\ Len(hist[k]) = 1
    /\ \A k2 \in Keys \ {k} : hist[k2] = <<>> /\ devices[k2] = 0
    /\ devices[k] = hist[k][1].now
    /\ Len(zone_history) = 1
    /\ zone_history[1].start_time = hist[k][1].now
    /\ zone_history[1].end_time = 0

\* The step in which worker w's on_message callback returns.  It returns
\* normally in every case (its except clause swallows the exception), and the
\* client created by mqtt.Client(..) without manual acknowledgement answers the
\* return of the callback of a qos=1 message with the acknowledgement.
Acknowledged(w) ==
  /\ wk[w].pc # "idle"
  /\ wk'[w].pc = "idle"

\* C14: an event whose processing has failed is not acknowledged to the
\* transport.
FailedEventNotAcknowledged ==
  [][\A w \in Workers : wk[w].pc = "failed" => ~Acknowledged(w)]_vars

\* Worker w's event has ended without a commit: it was rejected as malformed
\* or its processing failed.
Dropped(w) == wk[w].pc \in {"rejected", "failed"}

\* C15: a malformed or failed event does not block or poison other processing.
\* The step in which worker w's event is dropped changes no Device, Zone or
\* Visit row and no other worker; a worker whose event was dropped holds no
\* row lock and no buffered write, so no transaction waits for it; and its
\* next step makes it idle, ready for the next event.
DroppedEventHarmsNothing ==
  [][\A w \in Workers :
       /\ (~Dropped(w) /\ Dropped(w)')
          => /\ UNCHANGED <<devices, zones, zone_history, hist>>
             /\ \A o \in Workers \ {w} : wk'[o] = wk[o]
       /\ Dropped(w)
          => /\ wk[w].locks = {} /\ wk[w].pend = NoPend
             /\ wk'[w] # wk[w] => wk'[w] = Idle /\ UNCHANGED <<devices, zones, zone_history, hist>>
    ]_vars

\* C15 witness: more events have arrived than there are workers; the earlier
\* ones were all dropped (rejected or failed, one of them before the last one
\* arrived), and the last one was processed to completion on top of them.
LaterEventProcessedAfterDrop ==
  \E k \in Keys :
    /\ clock = NumWorkers + 1
    /\ \A w \in Workers : wk[w].pc = "idle"
    /\ Len(hist[k]) = 1
    /\ hist[k][1].now = clock
    /\ \A k2 \in Keys \ {k} : hist[k2] = <<>>
    /\ Cardinality(OpenVisits(k)) = 1
    /\ devices[k] = clock

\* The step belongs to the ingestion path: a worker moves.
IngestionStep == wk' # wk

\* C16: the ingestion path never changes the name of an existing Zone, whether
\* an event or the zone API has created or named it; a Zone that an event
\* creates is named after its zoneId.
IngestionKeepsZoneName ==
  [][IngestionStep =>
       \A zk \in ZoneKeys :
         IF zones[zk] # ""
         THEN zones'[zk] = zones[zk]
         ELSE zones'[zk] \in {"", zk[2]}
    ]_vars

\* C16 witness: an event created or found Zone z1 at instant 1, the zone API
\* named it at instant 2, and an event that arrived at instant 3 for that Zone
\* has been committed; the Zone still has the API's name.
EventAfterRename ==
  \E k \in Keys :
    /\ k[1] = "site-001"
    /\ zones[<<"site-001", "z1">>] = "Lobby"
    /\ clock = 3
    /\ Len(hist[k]) = 2
    /\ hist[k][1] = [zone_id |-> "z1", now |-> 1]
    /\ hist[k][2] = [zone_id |-> "z1", now |-> 3]

\* The routing key has the form site/{siteId}/device/{deviceId}/location.
RoutingKeyForm(topic) ==
  /\ Len(topic) = 5
  /\ topic[1] = "site" /\ topic[3] = "device" /\ topic[5] = "location"
  /\ topic[2] # "" /\ topic[4] # ""

\* C17: normalize_event takes the site from the payload (siteId, else site_id),
\* else from a routing key of the expected form, else the default; the device
\* from the payload (deviceId, else device_id), else from the routing key; the
\* zone from the payload only (zoneId, else zone_id).  It fails exactly when
\* the device or the zone is then absent, and it changes nothing.
NormalizeContract ==
  [][\A w \in Workers : \A m \in NormalizerInputs :
       OnMessage(w, m) =>
         LET p == m.payload
             site == IF p.siteId # "" THEN p.siteId
                     ELSE IF p.site_id # "" THEN p.site_id
                     ELSE IF RoutingKeyForm(m.topic) THEN m.topic[2]
                     ELSE DEFAULT_SITE_ID
             device == IF p.deviceId # "" THEN p.deviceId
                       ELSE IF p.device_id # "" THEN p.device_id
                       ELSE IF RoutingKeyForm(m.topic) THEN m.topic[4]
                       ELSE ""
             zone == IF p.zoneId # "" THEN p.zoneId ELSE p.zone_id
         IN /\ IF device = "" \/ zone = ""
               THEN wk'[w].pc = "rejected"
               ELSE /\ wk'[w].pc = "device"
                    /\ wk'[w].site_id = site
                    /\ wk'[w].device_id = device
                    /\ wk'[w].zone_id = zone
            /\ UNCHANGED <<devices, zones, zone_history, hist>>
    ]_vars

\* C17 witness: an event normalized with the site of the routing key, the
\* device of the payload key device_id and the zone of the payload key zone_id.
NormalizedFromRoutingKey ==
  \E w \in Workers :
    /\ wk[w].pc = "device"
    /\ wk[w].site_id = "s4"
    /\ wk[w].device_id = "d2"
    /\ wk[w].zone_id = "z2"

\* C18: every item of a device-history response follows the occupancy rules.
\* isOpen holds iff endTime is absent.  An open Visit whose device was seen
\* within the threshold is active, without effectiveEnd and durationSeconds; an
\* open Visit whose device was last seen longer ago is not active, ends
\* effectively at lastSeen and lasts max(0, lastSeen - startTime); a closed
\* Visit is not active, ends effectively at endTime and lasts
\* max(0, endTime - startTime).
OccupancyRules ==
  (resp.op = "device_history" /\ resp.status = 200) =>
    \A n \in DOMAIN resp.items :
      LET it == resp.items[n]
          v == zone_history[it.id]
      IN /\ it.startTime = v.start_time /\ it.endTime = v.end_time
         /\ it.isOpen <=> it.endTime = 0
         /\ IF it.endTime = 0 /\ resp.now - resp.lastSeen <= StaleThreshold
            THEN /\ it.isActive
                 /\ it.effectiveEndTime = 0
                 /\ it.durationSeconds = None
            ELSE IF it.endTime = 0
            THEN /\ ~it.isActive
                 /\ it.effectiveEndTime = resp.lastSeen
                 /\ it.durationSeconds =
                      Max(0, (resp.lastSeen - it.startTime) * SecondsPerInstant)
            ELSE /\ ~it.isActive
                 /\ it.effectiveEndTime = it.endTime
                 /\ it.durationSeconds =
                      Max(0, (it.endTime - it.startTime) * SecondsPerInstant)

\* C18 witness: the history of a device whose open Visit started at T0 = 1 and
\* which was last seen 5 minutes later, read 40 minutes after T0 with the
\* threshold of 30 minutes: not active, effective end at lastSeen, 300 seconds.
StaleVisitOfFiveMinutes ==
  /\ resp.op = "device_history" /\ resp.status = 200
  /\ STALE_THRESHOLD_MINUTES = 30
  /\ resp.lastSeen = 2
  /\ resp.now = 1 + 40 \div MinutesPerInstant
  /\ \E n \in DOMAIN resp.items :
       /\ resp.items[n].startTime = 1
       /\ resp.items[n].isOpen
       /\ ~resp.items[n].isActive
       /\ resp.items[n].effectiveEndTime = 2
       /\ resp.items[n].durationSeconds = 300

\* C18 witness of the boundary: a device last seen exactly the threshold ago
\* is active.
ActiveAtTheThreshold ==
  /\ resp.op = "device_history" /\ resp.status = 200
  /\ resp.now - resp.lastSeen = StaleThreshold
  /\ \E n \in DOMAIN resp.items : resp.items[n].isActive

\* C19: the read operations never write to the ledger.  A step that serves or
\* returns a request leaves every Device, Zone and Visit row as it is; a Visit's
\* endTime goes from absent to set only in the successful return of an event
\* for that Visit's device, whatever time has passed and whatever was read.
ReadsNeverWrite ==
  [][/\ resp' # resp => UNCHANGED <<devices, zones, zone_history, hist>>
     /\ \A i \in DOMAIN zone_history :
          (zone_history[i].end_time = 0 /\ zone_history'[i].end_time # 0)
          => \E w \in Workers :
               /\ Returns(w)
               /\ KeyOf(wk[w]) = KeyOf(zone_history[i])
    ]_vars

\* C19 witness: a device history is being returned that reports the device's
\* open Visit as stale (not active, effective end at lastSeen), messages have
\* arrived since the device was last seen, and the Visit's endTime is still
\* absent in the ledger.
StaleVisitStillOpen ==
  /\ resp.op = "device_history" /\ resp.status = 200
  /\ resp.lastSeen < clock
  /\ \E n \in DOMAIN resp.items :
       /\ resp.items[n].isOpen
       /\ ~resp.items[n].isActive
       /\ resp.items[n].effectiveEndTime = resp.lastSeen
       /\ zone_history[resp.items[n].id].end_time = 0

\* The seconds between startTime and endTime, summed over the closed Visits
\* among the first n rows of the ledger that belong to the site and the zone
\* and whose startTime is after the cutoff.
RECURSIVE DwellSeconds(_, _, _, _)
DwellSeconds(n, site_id, zone_id, cutoff) ==
  IF n = 0
  THEN 0
  ELSE LET v == zone_history[n]
       IN DwellSeconds(n - 1, site_id, zone_id, cutoff)
          + IF /\ v.site_id = site_id /\ v.zone_id = zone_id
               /\ v.start_time > cutoff /\ v.end_time # 0
            THEN (v.end_time - v.start_time) * SecondsPerInstant
            ELSE 0

\* C20: the dwell-time totals of a site and window have one row for each zone
\* with a closed Visit of that site that started inside the window, and no
\* other row; a row's total is the sum of endTime - startTime over exactly
\* those Visits of its zone (open Visits add nothing); the rows are sorted by
\* total, descending.
DwellTotals ==
  (resp.op = "most_visited" /\ resp.status = 200) =>
    LET cutoff == resp.now - HoursInterval(resp.windowHours)
        counted == {i \in DOMAIN zone_history :
                      /\ zone_history[i].site_id = resp.siteId
                      /\ zone_history[i].start_time > cutoff
                      /\ zone_history[i].end_time # 0}
    IN /\ \A z \in ZoneIds :
            (\E n \in DOMAIN resp.items : resp.items[n].zoneId = z)
            <=> (\E i \in counted : zone_history[i].zone_id = z)
       /\ \A n \in DOMAIN resp.items :
            /\ resp.items[n].zoneId \in ZoneIds
            /\ resp.items[n].totalSeconds =
                 DwellSeconds(Len(zone_history), resp.siteId, resp.items[n].zoneId, cutoff)
       /\ \A n, m \in DOMAIN resp.items :
            /\ n # m => resp.items[n].zoneId # resp.items[m].zoneId
            /\ n < m => resp.items[n].totalSeconds >= resp.items[m].totalSeconds

\* C20 witness: the totals of a site that has a closed Visit of five minutes
\* inside the window, a closed Visit that started before the window, and an
\* open Visit in a zone without a closed Visit: one row, of 300 seconds.
TotalsSkipOpenAndOldVisits ==
  /\ resp.op = "most_visited" /\ resp.status = 200
  /\ Len(resp.items) = 1
  /\ resp.items[1].totalSeconds = 300
  /\ \E i, j, l \in DOMAIN zone_history :
       /\ zone_history[i].site_id = resp.siteId
       /\ zone_history[i].end_time = 0
       /\ zone_history[i].zone_id # resp.items[1].zoneId
       /\ zone_history[j].site_id = resp.siteId
       /\ zone_history[j].end_time # 0
       /\ zone_history[j].start_time <= resp.now - HoursInterval(resp.windowHours)
       /\ zone_history[l].site_id = resp.siteId
       /\ zone_history[l].end_time = zone_history[l].start_time + 1
       /\ zone_history[l].zone_id = resp.items[1].zoneId

\* Visit j immediately follows Visit i: both are Visits of one device, j starts
\* later, and no Visit of the device starts in between.
ImmediatelyFollows(i, j) ==
  /\ KeyOf(zone_history[i]) = KeyOf(zone_history[j])
  /\ zone_history[i].start_time < zone_history[j].start_time
  /\ \A k \in VisitsOf(KeyOf(zone_history[i])) :
       ~ /\ zone_history[i].start_time < zone_history[k].start_time
         /\ zone_history[k].start_time < zone_history[j].start_time

\* The number of times a Visit in zone a is immediately followed by a Visit in
\* zone b, over the devices of the site.
TimesFollowed(site_id, a, b) ==
  Cardinality({p \in (DOMAIN zone_history) \X (DOMAIN zone_history) :
                 /\ zone_history[p[1]].site_id = site_id
                 /\ zone_history[p[1]].zone_id = a
                 /\ zone_history[p[2]].zone_id = b
                 /\ ImmediatelyFollows(p[1], p[2])})

\* C21: the transition frequencies have a row for an ordered pair of zones only
\* if a Visit in the first is immediately followed, in startTime order for the
\* same device, by a Visit in the second; the row's frequency is the number of
\* such successions over all devices of the site; no pair has two rows; the
\* rows are sorted by frequency, descending, and are the first `limit` rows of
\* that order.
TransitionFrequencies ==
  (resp.op = "transitions" /\ resp.status = 200) =>
    LET pairs == {p \in ZoneIds \X ZoneIds : TimesFollowed(resp.siteId, p[1], p[2]) > 0}
        shown == {<<resp.items[n].currentZone, resp.items[n].nextZone>> :
                    n \in DOMAIN resp.items}
    IN /\ shown \subseteq pairs
       /\ \A n \in DOMAIN resp.items :
            resp.items[n].frequency =
              TimesFollowed(resp.siteId, resp.items[n].currentZone, resp.items[n].nextZone)
       /\ \A n, m \in DOMAIN resp.items :
            /\ n # m => <<resp.items[n].currentZone, resp.items[n].nextZone>>
                        # <<resp.items[m].currentZone, resp.items[m].nextZone>>
            /\ n < m => resp.items[n].frequency >= resp.items[m].frequency
       /\ Len(resp.items) = IF Cardinality(pairs) < resp.limit
                            THEN Cardinality(pairs) ELSE resp.limit
       /\ \A p \in pairs \ shown : \A n \in DOMAIN resp.items :
            resp.items[n].frequency >= TimesFollowed(resp.siteId, p[1], p[2])

\* C21 witness: one device of the site has the Visits A, B, A and another the
\* Visits A, B, and the frequencies are requested with limit 1: the only row is
\* (A, B) with frequency 2, ahead of (B, A) with frequency 1, and there is no
\* (A, A).
TwoDevicesFromAToB ==
  /\ resp.op = "transitions" /\ resp.status = 200 /\ resp.limit = 1
  /\ resp.items = <<[currentZone |-> "z1", nextZone |-> "z2", frequency |-> 2]>>
  /\ TimesFollowed(resp.siteId, "z2", "z1") = 1
  /\ TimesFollowed(resp.siteId, "z1", "z1") = 0
  /\ \E i, j, k \in DOMAIN zone_history :
       /\ ImmediatelyFollows(i, j) /\ ImmediatelyFollows(j, k)
       /\ zone_history[i].zone_id = "z1"
       /\ zone_history[j].zone_id = "z2"
       /\ zone_history[k].zone_id = "z1"
       /\ zone_history[i].site_id = resp.siteId

\* C22: when the events of a device are processed one at a time, after each
\* successfully processed event the device has a single open Visit, and its
\* zoneId is the zoneId of that event (of the device's last processed event).
OpenVisitIsLastEventsZone ==
  \A k \in Keys :
    hist[k] # <<>> =>
      \E i \in OpenVisits(k) :
        /\ OpenVisits(k) = {i}
        /\ zone_history[i].zone_id = hist[k][Len(hist[k])].zone_id

\* C22 witness: three events of a device were processed one after the other,
\* the second in the zone of the first and the third in another zone; the open
\* Visit, the device's second, is in the zone of the third.
ThirdEventMovedTheDevice ==
  \E k \in Keys :
    /\ Len(hist[k]) = 3
    /\ hist[k][1].zone_id = hist[k][2].zone_id
    /\ hist[k][2].zone_id # hist[k][3].zone_id
    /\ Cardinality(VisitsOf(k)) = 2
    /\ \E i \in OpenVisits(k) : zone_history[i].zone_id = hist[k][3].zone_id
    /\ Quiescent

\* Two Visits of a device that are consecutive in creation order (the ids are
\* the positions in the ledger) are in different zones.  This part of C23
\* holds.
CreationOrderAlternates ==
  \A i, j \in DOMAIN zone_history :
    ( /\ i < j
      /\ KeyOf(zone_history[i]) = KeyOf(zone_history[j])
      /\ \A l \in VisitsOf(KeyOf(zone_history[i])) : ~(i < l /\ l < j) )
    => zone_history[i].zone_id # zone_history[j].zone_id

\* C23: in every reachable state two Visits of a device that are consecutive in
\* creation order never have the same zoneId, and the transition frequencies
\* never have a row with currentZone = nextZone.
NoTransitionToTheSameZone ==
  /\ CreationOrderAlternates
  /\ (resp.op = "transitions" /\ resp.status = 200) =>
       \A n \in DOMAIN resp.items : resp.items[n].currentZone # resp.items[n].nextZone

\* The Visit of the device created next after Visit i, 0 if i is the last.
SupersededBy(i) ==
  LET later == {j \in VisitsOf(KeyOf(zone_history[i])) : j > i}
  IN IF later = {} THEN 0 ELSE CHOOSE j \in later : \A l \in later : j <= l

\* C24: the Visits of a device form a gap-free chain: the endTime of every
\* closed Visit is the startTime of the Visit that superseded it, and a device
\* with k >= 1 Visits has exactly k - 1 closed Visits.
VisitsFormAChain ==
  /\ \A i \in DOMAIN zone_history :
       zone_history[i].end_time # 0 =>
         /\ SupersededBy(i) # 0
         /\ zone_history[SupersededBy(i)].start_time = zone_history[i].end_time
  /\ \A k \in Keys :
       VisitsOf(k) # {} =>
         Cardinality({i \in VisitsOf(k) : zone_history[i].end_time # 0})
           = Cardinality(VisitsOf(k)) - 1

\* C24 witness: no event is being processed and a device has three Visits, two
\* of them closed, one of these by a transaction that began before the Visit's
\* own startTime.
ChainOfThreeVisits ==
  \E k \in Keys :
    /\ Cardinality(VisitsOf(k)) = 3
    /\ \A w \in Workers : wk[w].pc = "idle"
    /\ \E i \in VisitsOf(k) :
         zone_history[i].end_time # 0 /\ zone_history[i].end_time < zone_history[i].start_time

\* At most one item of a device-history response is active, and an active item
\* is open.  This part of C25 holds.
ActiveItemIsTheOpenOne ==
  (resp.op = "device_history" /\ resp.status = 200) =>
    /\ Cardinality({n \in DOMAIN resp.items : resp.items[n].isActive}) <= 1
    /\ \A n \in DOMAIN resp.items : resp.items[n].isActive => resp.items[n].isOpen

\* C25: in a device-history response at most one item has isActive = true,
\* isActive implies isOpen, and an active item is the device's most recent
\* Visit, the one with the greatest startTime.
ActiveItemIsMostRecent ==
  /\ ActiveItemIsTheOpenOne
  /\ (resp.op = "device_history" /\ resp.status = 200) =>
       \A n \in DOMAIN resp.items :
         resp.items[n].isActive =>
           \A i \in VisitsOf(<<resp.siteId, resp.deviceId>>) :
             zone_history[i].start_time <= resp.items[n].startTime

\* The items of the last history response that report a stale open Visit:
\* isOpen, not isActive, the effective end at lastSeen.
StaleItems ==
  IF resp.op = "device_history" /\ resp.status = 200
  THEN {n \in DOMAIN resp.items :
          /\ resp.items[n].isOpen
          /\ ~resp.items[n].isActive
          /\ resp.items[n].effectiveEndTime = resp.lastSeen}
  ELSE {}

\* C26: when a Visit that the last response reported stale is reported closed
\* by the next response, its endTime is the processing time of an event for a
\* different zone, later than the stale report and than the lastSeen it showed,
\* and its durationSeconds is at least the durationSeconds reported while it
\* was stale.
StaleVisitClosedAtEventTime ==
  [][\A n \in StaleItems :
       (resp' # resp /\ resp'.op = "device_history" /\ resp'.status = 200) =>
         \A m \in DOMAIN resp'.items :
           (resp'.items[m].id = resp.items[n].id /\ ~resp'.items[m].isOpen) =>
             /\ \E e \in DOMAIN hist[<<resp.siteId, resp.deviceId>>] :
                  LET event == hist[<<resp.siteId, resp.deviceId>>][e]
                  IN /\ event.now = resp'.items[m].endTime
                     /\ event.zone_id # resp.items[n].zoneId
             /\ resp'.items[m].endTime > resp.now
             /\ resp'.items[m].endTime > resp.lastSeen
             /\ resp'.items[m].effectiveEndTime = resp'.items[m].endTime
             /\ resp'.items[m].durationSeconds >= resp.items[n].durationSeconds
    ]_vars

\* C26 witness: the last response reported a Visit stale, with a duration of
\* five minutes up to lastSeen, and an event has closed the Visit since; no
\* event is being processed, so the history can be polled again.
StaleVisitClosedSince ==
  /\ Quiescent
  /\ \E n \in StaleItems :
       /\ resp.items[n].durationSeconds = 300
       /\ zone_history[resp.items[n].id].end_time # 0

\* The events of the device that were processed after the last history
\* response.
EventsSinceResponse ==
  LET k == <<resp.siteId, resp.deviceId>>
  IN {e \in DOMAIN hist[k] : hist[k][e].now > resp.now}

\* C27: when the last response reported a Visit stale and the only events
\* processed for the device since then are events for the Visit's zone, the
\* next response has no new Visit and reports the same Visit as open and
\* active again, with its original startTime.
SameZoneEventRevivesStaleVisit ==
  [][\A n \in StaleItems :
       ( /\ resp' # resp
         /\ resp'.op = "device_history"
         /\ EventsSinceResponse # {}
         /\ \A e \in EventsSinceResponse :
              hist[<<resp.siteId, resp.deviceId>>][e].zone_id = resp.items[n].zoneId )
       => /\ resp'.status = 200
          /\ Len(resp'.items) = Len(resp.items)
          /\ Cardinality(VisitsOf(<<resp.siteId, resp.deviceId>>)) = Len(resp.items)
          /\ \E m \in DOMAIN resp'.items :
               /\ resp'.items[m].id = resp.items[n].id
               /\ resp'.items[m].isOpen
               /\ resp'.items[m].isActive
               /\ resp'.items[m].startTime = resp.items[n].startTime
               /\ resp'.items[m].endTime = 0
    ]_vars

\* C27 witness: the last response reported a Visit stale, and an event for the
\* same zone has been processed since; no event is being processed, so the
\* history can be polled again.
SameZoneEventAfterStaleReport ==
  /\ Quiescent
  /\ \E n \in StaleItems :
       /\ EventsSinceResponse # {}
       /\ \A e \in EventsSinceResponse :
            hist[<<resp.siteId, resp.deviceId>>][e].zone_id = resp.items[n].zoneId

\* C28: in every reachable state, under any interleaving of the workers, a
\* Device's lastSeen is at least the startTime of each of its Visits and at
\* least each of their endTimes.
LastSeenCoversVisits ==
  \A i \in DOMAIN zone_history :
    /\ devices[KeyOf(zone_history[i])] >= zone_history[i].start_time
    /\ devices[KeyOf(zone_history[i])] >= zone_history[i].end_time

\* The history never computes a negative duration: the effective end of an
\* item is not before its startTime.  This consequence drawn in C28 fails too.
ClampHidesNothing ==
  (resp.op = "device_history" /\ resp.status = 200) =>
    \A n \in DOMAIN resp.items :
      resp.items[n].effectiveEndTime # 0 =>
        resp.items[n].effectiveEndTime >= resp.items[n].startTime

====
